---- MODULE Spec2Model ----
(***************************************************************************)
(* Adjudication rules engine: the Rule / RuleVersion lifecycle of          *)
(* backend/app/services/rule_service.py and the admin endpoints of         *)
(* backend/app/api/v1/endpoints/rules.py.                                  *)
(*                                                                         *)
(* Spec     : every request handler is one atomic action (requests served  *)
(*            one after the other).                                        *)
(* SpecConc : the handlers are split at their awaits (one action per       *)
(*            database round trip) and two requests interleave.  Each      *)
(*            request is one transaction of the PostgreSQL database        *)
(*            (core/config.py DATABASE_URL) at READ COMMITTED: its writes  *)
(*            reach the tables when the request ends, an UPDATE holds the  *)
(*            row lock until then, a SELECT reads what is committed.       *)
(*                                                                         *)
(* Python None / SQL NULL is the string None for text columns and          *)
(* NullInstant for DateTime columns.  An Optional field of a request body  *)
(* (RuleCreate, RuleUpdate) that is None is a field missing from the       *)
(* DOMAIN of the record that models the body.                              *)
(***************************************************************************)
EXTENDS Integers, Sequences, FiniteSets, TLC

VARIABLES
    rules,        \* table rules: id -> row, DOMAIN = ids of the stored rows
    versions,     \* table rule_versions grouped by rule_id, in insertion order
    audit_logs,   \* table audit_logs: <<action, rule_id>> -> number of rows
    next_id,      \* number of rule ids handed out so far (ids are never reused)
    resp,         \* what the last finished request returned
    pc,           \* SpecConc: the await each in-flight request stands at
    req,          \* SpecConc: the request each process serves
    obj,          \* SpecConc: the Rule object in each request's session
    max_version,  \* SpecConc: the max(version_number) each request has read
    written,      \* SpecConc: the columns each request's UPDATE has written
    pending,      \* SpecConc: the RuleVersion rows each request has added
    row_lock,     \* SpecConc: request holding the row lock of a rule row
    result,       \* SpecCatalog: what the last RuleService call returned
    execution_logs, \* rows of audit_logs with action rule_executed
    cache,        \* Redis key active_rules: <<>> (no key) or <<entry>>
    view,         \* SpecConc: the entry a cache reader has computed, or <<>>
    claims,       \* table claims: id -> row, DOMAIN = ids of the stored rows
    next_claim,   \* number of claim ids handed out so far
    claim_lock,   \* SpecClaims: request holding the row lock of a claim row
    counter,      \* Redis keys ratelimit:<identifier>: <<>> or <<[count, ttl]>>
    passed        \* per identifier: requests let through in the key's window

dbvars   == <<rules, versions, audit_logs, next_id>>
concvars == <<pc, req, obj, max_version, written, pending, row_lock>>
runvars  == <<result, execution_logs>>
cachevars == <<cache, view>>
claimvars == <<claims, next_claim, claim_lock>>
ratevars == <<counter, passed>>
\* the state the rule requests leave alone
othervars == <<claimvars, ratevars>>
vars     == <<rules, versions, audit_logs, next_id, resp,
              pc, req, obj, max_version, written, pending, row_lock,
              result, execution_logs, cache, view,
              claims, next_claim, claim_lock, counter, passed>>

(***************************** bounds **************************************)
MaxRules == 2
MaxVersions == 3

MaxClaims == 3

(***************************** constants ***********************************)
None == "None"
NullInstant == 0
DefaultPriority == 100

RuleIds == 1..MaxRules
Users == {"u1"}
Procs == {"p1", "p2"}
ClaimRowIds == 1..MaxClaims
\* what the rate limiter counts by (_get_identifier)
Identifiers == {"user:u1", "ip:10.0.0.1"}

AuditActions == {"rule_created", "rule_updated", "rule_deleted"}

\* columns of rules that RuleUpdate can carry
PatchFields ==
    {"rule_name", "description", "rule_type", "action_type", "condition_logic",
     "priority", "is_active", "effective_from", "effective_to",
     "denial_reason_template", "flag_reason_template", "category", "tags"}

\* the version ids a rollback request names: the first version of the rule
\* and one no rule has
VersionIds == {1, MaxVersions + 1}

\* columns of rule_versions copied from the rule
SnapshotFields ==
    {"rule_name", "rule_type", "action_type", "condition_logic", "priority",
     "effective_from"}

(***************************** request bodies ******************************)
\* RuleCreate bodies the admin client sends
RuleCreateData ==
    { [rule_name |-> "n1", rule_code |-> "R1", rule_type |-> "validation",
       action_type |-> "flag", condition_logic |-> "condA", priority |-> 1,
       flag_reason_template |-> "check"],
      [rule_name |-> "n2", rule_code |-> "R2", rule_type |-> "adjudication",
       action_type |-> "deny", condition_logic |-> "condB", priority |-> 2,
       effective_from |-> 1, denial_reason_template |-> "denied"] }

\* RuleUpdate bodies the admin client sends
RuleUpdateData ==
    { <<>>,
      [rule_name |-> "n2", is_active |-> FALSE],
      [priority |-> 2, effective_to |-> 2, change_description |-> "sunset"] }

\* the bodies of the requests that run concurrently in SpecConc
ConcCreateData == {d \in RuleCreateData : d.rule_code = "R1"}
ConcUpdateData ==
    { <<>>, [priority |-> 2], [priority |-> 3] }

\* data.f for an Optional field f
Opt(data, f, null) == IF f \in DOMAIN data THEN data[f] ELSE null

(***************************** RuleService *********************************)
\* Rule(...) of create.  The call reads data.is_active, a field RuleCreate
\* does not declare: the read is taken to give None (the case the code
\* provides for), so a created rule is active
NewRule(data, created_by) ==
    [ rule_name              |-> data.rule_name,
      rule_code              |-> data.rule_code,
      description            |-> Opt(data, "description", None),
      rule_type              |-> data.rule_type,
      action_type            |-> data.action_type,
      condition_logic        |-> data.condition_logic,
      priority               |-> IF Opt(data, "priority", 0) = 0
                                 THEN DefaultPriority ELSE data.priority,
      is_active              |-> Opt(data, "is_active", TRUE),
      effective_from         |-> Opt(data, "effective_from", NullInstant),
      effective_to           |-> Opt(data, "effective_to", NullInstant),
      denial_reason_template |-> Opt(data, "denial_reason_template", None),
      flag_reason_template   |-> Opt(data, "flag_reason_template", None),
      category               |-> Opt(data, "category", None),
      tags                   |-> Opt(data, "tags", <<>>),
      created_by             |-> created_by,
      last_modified_by       |-> created_by ]

\* (a full replace: a field the body leaves out falls back to its default)
ApplyPatchOverwriteAll(rule, data, modified_by) ==
    [f \in DOMAIN rule |->
        IF f \in PatchFields
        THEN (IF f \in DOMAIN data THEN data[f] ELSE
              IF f \in {"effective_from", "effective_to"} THEN NullInstant
              ELSE IF f = "priority" THEN DefaultPriority
              ELSE IF f = "is_active" THEN TRUE
              ELSE IF f = "tags" THEN <<>> ELSE None)
        ELSE IF f = "last_modified_by" THEN modified_by
        ELSE rule[f]]

\* the field assignments of update: `if data.f is not None: rule.f = data.f`
\* for every field of RuleUpdate, then rule.last_modified_by = modified_by
ApplyPatch(rule, data, modified_by) ==
    [f \in DOMAIN rule |->
        IF f \in PatchFields /\ f \in DOMAIN data THEN data[f]
        ELSE IF f = "last_modified_by" THEN modified_by
        ELSE rule[f]]

\* data.change_description or "Rule updated"
ChangeDescription(data) == Opt(data, "change_description", "Rule updated")

\* (the version_number of the first row instead of the greatest)
MaxVersionNumberOfFirstRow(vs) ==
    IF vs = <<>> THEN 0 ELSE vs[1].version_number

\* select max(version_number) where rule_id = rule.id; result.scalar() or 0
MaxVersionNumber(vs) ==
    IF vs = <<>> THEN 0
    ELSE CHOOSE m \in {vs[i].version_number : i \in 1..Len(vs)} :
            \A i \in 1..Len(vs) : vs[i].version_number <= m

\* (the snapshot takes the column default instead of the rule's priority)
NewVersionDefaultPriority(rule, version_number, created_by, change_description) ==
    [ version_number     |-> version_number,
      rule_name          |-> rule.rule_name,
      rule_type          |-> rule.rule_type,
      action_type        |-> rule.action_type,
      condition_logic    |-> rule.condition_logic,
      priority           |-> DefaultPriority,
      change_description |-> change_description,
      effective_from     |-> rule.effective_from,
      created_by         |-> created_by ]

\* RuleVersion(...) of _create_version
NewVersion(rule, version_number, created_by, change_description) ==
    [ version_number     |-> version_number,
      rule_name          |-> rule.rule_name,
      rule_type          |-> rule.rule_type,
      action_type        |-> rule.action_type,
      condition_logic    |-> rule.condition_logic,
      priority           |-> rule.priority,
      change_description |-> change_description,
      effective_from     |-> rule.effective_from,
      created_by         |-> created_by ]

\* _create_version, second half: db.add(version); flush
InsertVersion(vs, rule, max_ver, created_by, change_description) ==
    Append(vs, NewVersion(rule, max_ver + 1, created_by, change_description))

\* _create_version: the rows of the rule's versions after the insert
CreateVersion(vs, rule, created_by, change_description) ==
    InsertVersion(vs, rule, MaxVersionNumber(vs), created_by,
                  change_description)

\* get_by_code: some row has this rule_code
CodeExists(code) == \E r \in DOMAIN rules : rules[r].rule_code = code

\* get_by_id: the row is there
RuleExists(id) == id \in DOMAIN rules

\* audit_service.log(action, rule_id = id)
AuditLogged(action, id) ==
    [audit_logs EXCEPT ![<<action, id>>] = @ + 1]

PutRule(id, rule) ==
    [r \in DOMAIN rules \cup {id} |-> IF r = id THEN rule ELSE rules[r]]

(***************************** Spec: atomic handlers ***********************)
InitDb ==
    /\ rules = <<>>
    /\ versions = [r \in RuleIds |-> <<>>]
    /\ audit_logs = [k \in AuditActions \X RuleIds |-> 0]
    /\ next_id = 0

InitConc ==
    /\ pc = [p \in Procs |-> "idle"]
    /\ req = [p \in Procs |-> <<>>]
    /\ obj = [p \in Procs |-> <<>>]
    /\ max_version = [p \in Procs |-> 0]
    /\ written = [p \in Procs |-> {}]
    /\ pending = [p \in Procs |-> <<>>]
    /\ row_lock = [r \in RuleIds |-> None]

InitRun ==
    /\ result = [op |-> "none"]
    /\ execution_logs = 0

InitCache ==
    /\ cache = <<>>
    /\ view = <<>>

InitClaims ==
    /\ claims = <<>>
    /\ next_claim = 0
    /\ claim_lock = [c \in ClaimRowIds |-> None]

InitRate ==
    /\ counter = [i \in Identifiers |-> <<>>]
    /\ passed = [i \in Identifiers |-> 0]

InitOther == InitClaims /\ InitRate

Init ==
    InitDb /\ InitConc /\ InitRun /\ InitCache /\ InitOther /\ resp = "none"

\* POST /rules
create_rule(data, user) ==
    /\ IF CodeExists(data.rule_code)
       THEN /\ resp' = "400 Rule code already exists"
            /\ UNCHANGED dbvars
       ELSE /\ next_id < MaxRules
            /\ LET id   == next_id + 1
                   rule == NewRule(data, user)
               IN /\ rules' = PutRule(id, rule)
                  /\ versions' = [versions EXCEPT ![id] =
                        CreateVersion(@, rule, user, "Initial version")]
                  /\ audit_logs' = AuditLogged("rule_created", id)
                  /\ next_id' = id
            /\ resp' = "201 Created"
    /\ cache' = IF CodeExists(data.rule_code) THEN cache ELSE <<>>
    /\ UNCHANGED <<concvars, runvars, othervars, view>>

\* (the version is written before the fields are assigned)
update_rule_snapshot_first(id, data, user) ==
    /\ IF ~RuleExists(id)
       THEN /\ resp' = "404 Rule not found"
            /\ UNCHANGED dbvars
       ELSE /\ Len(versions[id]) < MaxVersions
            /\ resp' = "200 OK"
            /\ audit_logs' = AuditLogged("rule_updated", id)
            /\ UNCHANGED next_id
            /\ rules' = PutRule(id, ApplyPatch(rules[id], data, user))
            /\ versions' = [versions EXCEPT ![id] =
                  CreateVersion(@, rules[id], user, ChangeDescription(data))]
    /\ cache' = IF RuleExists(id) THEN <<>> ELSE cache
    /\ UNCHANGED <<concvars, runvars, othervars, view>>

\* PUT /rules/{rule_id}: get_by_id, RuleService.update, audit record
update_rule(id, data, user) ==
    /\ IF ~RuleExists(id)
       THEN /\ resp' = "404 Rule not found"
            /\ UNCHANGED dbvars
       ELSE /\ Len(versions[id]) < MaxVersions
            /\ resp' = "200 OK"
            /\ audit_logs' = AuditLogged("rule_updated", id)
            /\ UNCHANGED next_id
            /\ LET rule == ApplyPatch(rules[id], data, user)
               IN /\ rules' = PutRule(id, rule)
                  /\ versions' = [versions EXCEPT ![id] =
                        CreateVersion(@, rule, user, ChangeDescription(data))]
    /\ cache' = IF RuleExists(id) THEN <<>> ELSE cache
    /\ UNCHANGED <<concvars, runvars, othervars, view>>

\* DELETE /rules/{rule_id}: db.delete(rule), versions cascade "all, delete-orphan"
delete_rule(id, user) ==
    /\ IF ~RuleExists(id)
       THEN /\ resp' = "404 Rule not found"
            /\ UNCHANGED dbvars
       ELSE /\ rules' = [r \in DOMAIN rules \ {id} |-> rules[r]]
            /\ versions' = [versions EXCEPT ![id] = <<>>]
            /\ audit_logs' = AuditLogged("rule_deleted", id)
            /\ UNCHANGED next_id
            /\ resp' = "200 OK"
    /\ cache' = IF RuleExists(id) THEN <<>> ELSE cache
    /\ UNCHANGED <<concvars, runvars, othervars, view>>

\* POST /rules/{rule_id}/rollback/{version_id}: RuleService defines no rollback,
\* the call raises AttributeError before anything is written
rollback_rule(id, version_id, user) ==
    /\ UNCHANGED dbvars
    /\ IF ~RuleExists(id)
       THEN resp' = "404 Rule not found"
       ELSE resp' = "500 AttributeError"
    /\ UNCHANGED <<concvars, runvars, othervars, cachevars>>

\* (the flag change is recorded as a version, like an update)
toggle_active_versioned(id, is_active, user) ==
    /\ UNCHANGED <<audit_logs, next_id>>
    /\ IF ~RuleExists(id)
       THEN /\ resp' = "None"
            /\ UNCHANGED <<rules, versions>>
       ELSE /\ Len(versions[id]) < MaxVersions
            /\ resp' = "Rule"
            /\ rules' = PutRule(id, [rules[id] EXCEPT !.is_active = is_active,
                                                    !.last_modified_by = user])
            /\ versions' = [versions EXCEPT ![id] =
                  CreateVersion(@, rules[id], user, "Rule updated")]
    /\ cache' = IF RuleExists(id) THEN <<>> ELSE cache
    /\ UNCHANGED <<concvars, runvars, othervars, view>>

\* RuleService.toggle_active (no endpoint, no audit record)
toggle_active(id, is_active, user) ==
    /\ UNCHANGED <<versions, audit_logs, next_id>>
    /\ IF ~RuleExists(id)
       THEN /\ resp' = "None"
            /\ UNCHANGED rules
       ELSE /\ rules' = PutRule(id, [rules[id] EXCEPT !.is_active = is_active,
                                                    !.last_modified_by = user])
            /\ resp' = "Rule"
    /\ cache' = IF RuleExists(id) THEN <<>> ELSE cache
    /\ UNCHANGED <<concvars, runvars, othervars, view>>

Next ==
    \/ \E data \in RuleCreateData, user \in Users : create_rule(data, user)
    \/ \E id \in RuleIds, data \in RuleUpdateData, user \in Users :
          update_rule(id, data, user)
    \/ \E id \in RuleIds, user \in Users : delete_rule(id, user)
    \/ \E id \in RuleIds, v \in VersionIds, user \in Users :
          rollback_rule(id, v, user)
    \/ \E id \in RuleIds, a \in BOOLEAN, user \in Users :
          toggle_active(id, a, user)

Spec == Init /\ [][Next]_vars

(***************************** SpecConc: handlers split at awaits **********)
\* the requests of kind op that stand at one of steps
InFlight(op, steps) == {q \in Procs : pc[q] \in steps /\ req[q].op = op}

AfterInsert == {"ver_max", "ver_insert", "invalidate", "finish"}

\* a create whose INSERT of this code is not committed yet
InsertingCode(code) ==
    \E q \in InFlight("create", AfterInsert) : req[q].data.rule_code = code

\* the session is closed
Idle(p) ==
    /\ pc' = [pc EXCEPT ![p] = "idle"]
    /\ req' = [req EXCEPT ![p] = <<>>]
    /\ obj' = [obj EXCEPT ![p] = <<>>]
    /\ max_version' = [max_version EXCEPT ![p] = 0]
    /\ written' = [written EXCEPT ![p] = {}]
    /\ pending' = [pending EXCEPT ![p] = <<>>]

\* create_rule: get_by_code, HTTP 400 for a known code
c_check(p, data, user) ==
    /\ pc[p] = "idle"
    /\ UNCHANGED <<runvars, othervars, cachevars>>
    /\ IF CodeExists(data.rule_code)
       THEN /\ resp' = "400 Rule code already exists"
            /\ UNCHANGED <<dbvars, concvars>>
       ELSE /\ next_id + Cardinality(InFlight("create", {"insert"})) < MaxRules
            /\ pc' = [pc EXCEPT ![p] = "insert"]
            /\ req' = [req EXCEPT ![p] =
                          [op |-> "create", data |-> data, user |-> user]]
            /\ UNCHANGED <<dbvars, resp, obj, max_version, written, pending,
                           row_lock>>

\* RuleService.create: add(rule); flush; refresh.  rules.rule_code is unique:
\* the INSERT waits for an uncommitted INSERT of the same code and raises
\* IntegrityError when the code is there
c_insert(p) ==
    /\ pc[p] = "insert"
    /\ UNCHANGED <<runvars, othervars, cachevars>>
    /\ ~InsertingCode(req[p].data.rule_code)
    /\ IF CodeExists(req[p].data.rule_code)
       THEN /\ resp' = "500 IntegrityError"
            /\ Idle(p)
            /\ UNCHANGED <<dbvars, row_lock>>
       ELSE LET id   == next_id + 1
                rule == NewRule(req[p].data, req[p].user)
            IN /\ next_id' = id
               /\ obj' = [obj EXCEPT ![p] = rule]
               /\ req' = [req EXCEPT ![p] =
                     [op |-> "create", id |-> id, data |-> req[p].data,
                      user |-> req[p].user, desc |-> "Initial version"]]
               /\ pc' = [pc EXCEPT ![p] = "ver_max"]
               /\ UNCHANGED <<rules, versions, audit_logs, resp, max_version,
                              written, pending, row_lock>>

\* update_rule: get_by_id, HTTP 404 for an unknown id
u_get(p, id, data, user) ==
    /\ pc[p] = "idle"
    /\ UNCHANGED <<runvars, othervars, cachevars>>
    /\ IF ~RuleExists(id)
       THEN /\ resp' = "404 Rule not found"
            /\ UNCHANGED <<dbvars, concvars>>
       ELSE /\ Len(versions[id])
                 + Cardinality({q \in InFlight("update", {"flush"} \cup AfterInsert) :
                                   req[q].id = id}) < MaxVersions
            /\ obj' = [obj EXCEPT ![p] = rules[id]]
            /\ req' = [req EXCEPT ![p] =
                  [op |-> "update", id |-> id, data |-> data, user |-> user,
                   desc |-> ChangeDescription(data)]]
            /\ pc' = [pc EXCEPT ![p] = "flush"]
            /\ UNCHANGED <<dbvars, resp, max_version, written, pending,
                           row_lock>>

\* RuleService.toggle_active: get_by_id, None for an unknown id
t_get(p, id, is_active, user) ==
    /\ pc[p] = "idle"
    /\ UNCHANGED <<runvars, othervars, cachevars>>
    /\ IF ~RuleExists(id)
       THEN /\ resp' = "None"
            /\ UNCHANGED <<dbvars, concvars>>
       ELSE /\ obj' = [obj EXCEPT ![p] = rules[id]]
            /\ req' = [req EXCEPT ![p] =
                  [op |-> "toggle", id |-> id, data |-> [is_active |-> is_active],
                   user |-> user]]
            /\ pc' = [pc EXCEPT ![p] = "flush"]
            /\ UNCHANGED <<dbvars, resp, max_version, written, pending,
                           row_lock>>

\* the attributes of the session's object that differ from the loaded ones:
\* the columns the flush puts in its UPDATE
Dirty(loaded, changed) == {f \in DOMAIN loaded : changed[f] # loaded[f]}

\* session.flush() then session.refresh(rule): an UPDATE of the dirty columns
\* (none: no statement), which waits for the row lock of another transaction
\* and holds it until the request ends; then the object is reloaded from the
\* committed row and the columns just written
Flush(p, changed) ==
    LET id    == req[p].id
        dirty == Dirty(obj[p], changed)
    IN /\ dirty # {} => row_lock[id] \in {None, p}
       /\ row_lock' = IF dirty # {} THEN [row_lock EXCEPT ![id] = p]
                      ELSE row_lock
       /\ written' = [written EXCEPT ![p] = dirty]
       /\ obj' = [obj EXCEPT ![p] = [f \in DOMAIN rules[id] |->
                        IF f \in dirty THEN changed[f] ELSE rules[id][f]]]

\* RuleService.update: field assignments, flush, refresh
u_flush(p) ==
    /\ pc[p] = "flush"
    /\ UNCHANGED <<runvars, othervars, cachevars>>
    /\ req[p].op = "update"
    /\ Flush(p, ApplyPatch(obj[p], req[p].data, req[p].user))
    /\ pc' = [pc EXCEPT ![p] = "ver_max"]
    /\ UNCHANGED <<dbvars, resp, req, max_version, pending>>

\* RuleService.toggle_active: is_active, last_modified_by, flush, refresh
t_flush(p) ==
    /\ pc[p] = "flush"
    /\ UNCHANGED <<runvars, othervars, cachevars>>
    /\ req[p].op = "toggle"
    /\ Flush(p, [obj[p] EXCEPT !.is_active = req[p].data.is_active,
                               !.last_modified_by = req[p].user])
    /\ pc' = [pc EXCEPT ![p] = "invalidate"]
    /\ UNCHANGED <<dbvars, resp, req, max_version, pending>>

\* _create_version: select max(version_number)
v_max(p) ==
    /\ pc[p] = "ver_max"
    /\ UNCHANGED <<runvars, othervars, cachevars>>
    /\ max_version' = [max_version EXCEPT ![p] =
                          MaxVersionNumber(versions[req[p].id])]
    /\ pc' = [pc EXCEPT ![p] = "ver_insert"]
    /\ UNCHANGED <<dbvars, resp, req, obj, written, pending, row_lock>>

\* _create_version: add(version); flush
v_insert(p) ==
    /\ pc[p] = "ver_insert"
    /\ UNCHANGED <<runvars, othervars, cachevars>>
    /\ pending' = [pending EXCEPT ![p] =
          InsertVersion(@, obj[p], max_version[p], req[p].user, req[p].desc)]
    /\ pc' = [pc EXCEPT ![p] = "invalidate"]
    /\ UNCHANGED <<dbvars, resp, req, obj, max_version, written, row_lock>>

\* the session of the request (Depends(get_db)) commits when the handler
\* returns: the rows the request has flushed reach the tables and its row
\* locks go
Commit(p) ==
    /\ rules' = IF req[p].op = "create" \/ written[p] # {}
                THEN PutRule(req[p].id, obj[p]) ELSE rules
    /\ versions' = [versions EXCEPT ![req[p].id] = @ \o pending[p]]
    /\ row_lock' = [r \in RuleIds |->
                      IF row_lock[r] = p THEN None ELSE row_lock[r]]

\* await cache.delete(CacheKeys.ACTIVE_RULES), the last statement of create,
\* update and toggle_active
invalidate(p) ==
    /\ pc[p] = "invalidate"
    /\ cache' = <<>>
    /\ pc' = [pc EXCEPT ![p] = "finish"]
    /\ UNCHANGED <<dbvars, runvars, othervars, view, resp, req, obj, max_version,
                   written, pending, row_lock>>

\* the endpoint's audit record, the response
finish(p) ==
    /\ pc[p] = "finish"
    /\ UNCHANGED <<runvars, othervars, cachevars>>
    /\ audit_logs' =
          IF req[p].op = "create" THEN AuditLogged("rule_created", req[p].id)
          ELSE IF req[p].op = "update" THEN AuditLogged("rule_updated", req[p].id)
          ELSE audit_logs
    /\ resp' = IF req[p].op = "create" THEN "201 Created"
               ELSE IF req[p].op = "update" THEN "200 OK" ELSE "Rule"
    /\ Commit(p)
    /\ Idle(p)
    /\ UNCHANGED next_id

\* the active rules as a reader of the catalog sees them
ActiveRulesEntry ==
    [r \in {r \in DOMAIN rules : rules[r].is_active = TRUE} |-> rules[r]]

\* read-through cache in front of the catalog: a miss on active_rules, then
\* the query of the active rules
r_read ==
    /\ view = <<>>
    /\ cache = <<>>
    /\ view' = <<ActiveRulesEntry>>
    /\ UNCHANGED <<dbvars, concvars, runvars, othervars, resp, cache>>

\* read-through cache: the entry just computed is stored under active_rules
r_set ==
    /\ view # <<>>
    /\ cache' = view
    /\ view' = <<>>
    /\ UNCHANGED <<dbvars, concvars, runvars, othervars, resp>>

NextConc ==
    \/ \E p \in Procs, data \in ConcCreateData, user \in Users :
          c_check(p, data, user)
    \/ \E p \in Procs : c_insert(p)
    \/ \E p \in Procs, id \in RuleIds, data \in ConcUpdateData, user \in Users :
          u_get(p, id, data, user)
    \/ \E p \in Procs, id \in RuleIds, a \in BOOLEAN, user \in Users :
          t_get(p, id, a, user)
    \/ \E p \in Procs : u_flush(p)
    \/ \E p \in Procs : t_flush(p)
    \/ \E p \in Procs : v_max(p)
    \/ \E p \in Procs : v_insert(p)
    \/ \E p \in Procs : invalidate(p)
    \/ \E p \in Procs : finish(p)
    \/ r_read
    \/ r_set

SpecConc == Init /\ [][NextConc]_vars

(***************************** SpecCatalog: the rule catalog ***************)
MaxInstant == 3

\* the values datetime.utcnow() takes
Instants == 1..MaxInstant

\* the rule_code of the rule with a given id
RuleCodes == <<"R1", "R2", "R3", "R4">>

RuleTypes == {"validation", "adjudication"}

\* what a stored rule is like for the catalog query: its flag, its effective
\* window, its type and its priority
RuleVariants ==
    [is_active : BOOLEAN,
     effective_from : {NullInstant, 2},
     effective_to : {NullInstant, 2},
     kind : {<<"validation", 1>>, <<"adjudication", 1>>, <<"validation", 2>>}]

\* the row of a rule created with these values
CatalogRule(id, v) ==
    [NewRule([rule_name |-> "n1", rule_code |-> RuleCodes[id],
              rule_type |-> v.kind[1], action_type |-> "flag",
              condition_logic |-> "condA", priority |-> v.kind[2],
              effective_from |-> v.effective_from,
              effective_to |-> v.effective_to], "u1")
       EXCEPT !.is_active = v.is_active]

\* a database that holds some rules, each with its initial version
InitCatalog ==
    /\ \E n \in 0..MaxRules : \E f \in [1..n -> RuleVariants] :
          rules = [r \in 1..n |-> CatalogRule(r, f[r])]
    /\ versions = [r \in RuleIds |->
          IF r \in DOMAIN rules
          THEN CreateVersion(<<>>, rules[r], "u1", "Initial version")
          ELSE <<>>]
    /\ audit_logs = [k \in AuditActions \X RuleIds |->
          IF k[1] = "rule_created" /\ k[2] \in DOMAIN rules THEN 1 ELSE 0]
    /\ next_id = Cardinality(DOMAIN rules)
    /\ InitConc /\ InitRun /\ InitCache /\ InitOther /\ resp = "none"

\* (the end of the effective window is not looked at)
IsActiveAtOpenEnded(rule, now) ==
    /\ rule.is_active = TRUE
    /\ \/ rule.effective_from = NullInstant
       \/ (rule.effective_from # NullInstant /\ rule.effective_from <= now)

\* the where clause of get_active_rules; a comparison with NULL is not true
IsActiveAt(rule, now) ==
    /\ rule.is_active = TRUE
    /\ \/ rule.effective_from = NullInstant
       \/ (rule.effective_from # NullInstant /\ rule.effective_from <= now)
    /\ \/ rule.effective_to = NullInstant
       \/ (rule.effective_to # NullInstant /\ rule.effective_to >= now)

\* the rows the query of get_active_rules selects
SelectActive(rule_type, now) ==
    {r \in DOMAIN rules :
        /\ IsActiveAt(rules[r], now)
        /\ rule_type # None => rules[r].rule_type = rule_type}

\* order_by(Rule.priority.asc()): the orders the database may return the rows
\* in; rows of equal priority come in any order
OrderedByPriority(S) ==
    {s \in [1..Cardinality(S) -> S] :
        /\ \A i, j \in DOMAIN s : i # j => s[i] # s[j]
        /\ \A i, j \in DOMAIN s :
              i < j => rules[s[i]].priority <= rules[s[j]].priority}

\* RuleService.get_active_rules(rule_type), now = datetime.utcnow()
get_active_rules(rule_type, now) ==
    /\ UNCHANGED <<dbvars, concvars, cachevars, othervars, resp, execution_logs>>
    /\ \E s \in OrderedByPriority(SelectActive(rule_type, now)) :
          result' = [op |-> "get_active_rules", rule_type |-> rule_type,
                     now |-> now, rules |-> s]

\* (the audit record is written before the rules are run)
execute_rules_audit_first(claim_id, user) ==
    /\ UNCHANGED <<dbvars, concvars, cachevars, othervars>>
    /\ execution_logs' = execution_logs + 1
    /\ resp' = "500 AttributeError"
    /\ result' = [op |-> "execute_rules", claim_id |-> claim_id,
                  error |-> "AttributeError"]

\* POST /rules/execute: RuleService defines no execute_for_claim, the call
\* raises AttributeError before the audit record is written
execute_rules(claim_id, user) ==
    /\ UNCHANGED <<dbvars, concvars, cachevars, othervars, execution_logs>>
    /\ resp' = "500 AttributeError"
    /\ result' = [op |-> "execute_rules", claim_id |-> claim_id,
                  error |-> "AttributeError"]

ClaimIds == {"claim1"}

NextCatalog ==
    \/ \E rule_type \in RuleTypes \cup {None}, now \in Instants :
          get_active_rules(rule_type, now)
    \/ \E claim_id \in ClaimIds, user \in Users : execute_rules(claim_id, user)

SpecCatalog == InitCatalog /\ [][NextCatalog]_vars

(***************************** SpecActivity: the active flag ***************)
\* RuleUpdate bodies that carry is_active and nothing else
ActivityUpdateData == {[is_active |-> a] : a \in BOOLEAN}

\* the two ways of changing the active flag of a stored rule
NextActivity ==
    \/ \E id \in RuleIds, data \in ActivityUpdateData, user \in Users :
          update_rule(id, data, user)
    \/ \E id \in RuleIds, a \in BOOLEAN, user \in Users :
          toggle_active(id, a, user)

SpecActivity == InitCatalog /\ [][NextActivity]_vars

(***************************** SpecEval: the condition evaluator ***********)
\* Python values of a claim context and of a comparison: None, an int, a list
\* of ints
PyNone == [t |-> "none"]
PyInt(n) == [t |-> "int", int |-> n]
PyList(s) == [t |-> "list", list |-> s]

\* a == b
PyEq(a, b) ==
    /\ a.t = b.t
    /\ a.t = "int" => a.int = b.int
    /\ a.t = "list" => a.list = b.list

\* bool(a)
Truthy(a) ==
    \/ a.t = "int" /\ a.int # 0
    \/ a.t = "list" /\ a.list # <<>>

\* what an expression of _evaluate_conditions gives: a bool, or it raises
Bool(b) == IF b THEN "True" ELSE "False"

\* a > b for lists: the first differing element decides, else the length
SeqGreater(a, b) ==
    \E k \in 1..Len(a) :
        /\ k - 1 <= Len(b)
        /\ \A i \in 1..(k - 1) : a[i] = b[i]
        /\ (k > Len(b) \/ a[k] > b[k])

\* a > b: defined between two ints and between two lists
PyGreater(a, b) ==
    IF a.t = "int" /\ b.t = "int" THEN Bool(a.int > b.int)
    ELSE IF a.t = "list" /\ b.t = "list" THEN Bool(SeqGreater(a.list, b.list))
    ELSE "TypeError"

\* x in container: defined for a list
PyIn(x, container) ==
    IF container.t = "list"
    THEN Bool(x.t = "int" /\ \E i \in DOMAIN container.list :
                                 container.list[i] = x.int)
    ELSE "TypeError"

\* dict.get(key), None for a missing key
Get(dict, key) == IF key \in DOMAIN dict THEN dict[key] ELSE PyNone

\* one pass of the loop of _evaluate_conditions: the element appended to
\* results for the entry rule
Compare(rule, context) ==
    LET op            == Opt(rule, "operator", None)
        value         == Opt(rule, "value", PyNone)
        context_value == Get(context, Opt(rule, "field", None))
    IN IF op = "equals" THEN Bool(PyEq(context_value, value))
       ELSE IF op = "not_equals" THEN Bool(~PyEq(context_value, value))
       ELSE IF op = "greater_than"
            THEN (IF Truthy(context_value)
                  THEN PyGreater(context_value, value) ELSE "False")
       ELSE IF op = "less_than"
            THEN (IF Truthy(context_value)
                  THEN PyGreater(value, context_value) ELSE "False")
       ELSE IF op = "contains"
            THEN (IF Truthy(context_value)
                  THEN PyIn(value, context_value) ELSE "False")
       ELSE IF op = "in"
            THEN (IF Truthy(context_value)
                  THEN PyIn(context_value, value) ELSE "False")
       ELSE "False"

\* RuleService._evaluate_conditions(conditions, context)
EvaluateConditions(conditions, context) ==
    IF DOMAIN conditions = {} THEN "False"
    ELSE LET operator == Opt(conditions, "operator", "and")
             entries  == Opt(conditions, "rules", <<>>)
             results  == [i \in DOMAIN entries |-> Compare(entries[i], context)]
         IN IF entries = <<>> THEN "False"
            ELSE IF \E i \in DOMAIN results : results[i] = "TypeError"
                 THEN "TypeError"
            ELSE IF operator = "and"
                 THEN Bool(\A i \in DOMAIN results : results[i] = "True")
            ELSE IF operator = "or"
                 THEN Bool(\E i \in DOMAIN results : results[i] = "True")
            ELSE "False"

MaxChildren == 2

\* claim contexts
Contexts ==
    { <<>>,
      [amount |-> PyInt(5)],
      [amount |-> PyInt(0)],
      [amount |-> PyNone],
      [codes |-> PyList(<<1, 5>>)],
      [amount |-> PyInt(5), codes |-> PyList(<<1, 5>>)] }

CompareOps ==
    {"equals", "not_equals", "greater_than", "less_than", "contains", "in"}

\* the entries the loop of _evaluate_conditions reads: field, operator, value
Comparisons ==
    [field : {"amount", "codes"}, operator : CompareOps,
     value : {PyNone, PyInt(1), PyInt(5), PyList(<<1, 5>>), PyList(<<0, 5>>)}]

\* the entries the conditions with several entries are built from
Leaves ==
    { [field |-> "amount", operator |-> "equals", value |-> PyInt(5)],
      [field |-> "amount", operator |-> "greater_than", value |-> PyInt(1)],
      [field |-> "codes", operator |-> "contains", value |-> PyInt(1)],
      [field |-> "amount", operator |-> "less_than", value |-> PyNone] }

\* a node as the ConditionLogic schema dumps it: type, conditions, field,
\* operator, value, the unused ones null
SchemaLeaves ==
    { [type |-> "COMPARISON", conditions |-> <<>>, field |-> "amount",
       operator |-> o, value |-> PyInt(5)] : o \in {"=", "!="} }

SchemaTrees ==
    SchemaLeaves \cup
    { [type |-> t, conditions |-> <<c>>, field |-> None, operator |-> None,
       value |-> PyNone] : t \in {"AND", "OR", "NOT"}, c \in SchemaLeaves }

\* the condition_logic values the evaluator is given
ConditionDicts ==
    {<<>>}
    \cup { [operator |-> o, rules |-> <<c>>] :
             o \in {"and", "or"}, c \in Comparisons }
    \cup { [rules |-> <<c>>] : c \in Leaves }
    \cup { [operator |-> o, rules |-> cs] :
             o \in {"and", "or", "not"},
             cs \in UNION {[1..n -> Leaves] : n \in 1..MaxChildren} }
    \cup { [operator |-> o, rules |-> <<[operator |-> o2, rules |-> <<c>>]>>] :
             o \in {"and", "or"}, o2 \in {"and", "or"}, c \in Leaves }
    \cup SchemaTrees

\* a call of RuleService._evaluate_conditions
evaluate_conditions(conditions, context) ==
    /\ UNCHANGED <<dbvars, concvars, cachevars, othervars, resp, execution_logs>>
    /\ result' = [op |-> "_evaluate_conditions", conditions |-> conditions,
                  context |-> context,
                  value |-> EvaluateConditions(conditions, context)]

\* the Rule objects evaluate_rule is given: the attributes it reads
EvalRules ==
    [id : {1}, rule_code : {"R1"},
     action_type : {"approve", "deny", "flag"},
     condition_logic :
         {<<>>} \cup {[operator |-> "and", rules |-> <<c>>] : c \in Leaves}
              \cup SchemaTrees,
     denial_reason_template : {"denied"},
     flag_reason_template : {"check"}]

\* (no try/except: what _evaluate_conditions raises leaves evaluate_rule)
EvaluateRuleUnguarded(rule, context) ==
    LET outcome == EvaluateConditions(rule.condition_logic, context)
    IN IF outcome = "TypeError" THEN [raised |-> "TypeError"]
       ELSE [rule_id |-> rule.id, rule_code |-> rule.rule_code,
             matched |-> outcome = "True",
             action |-> IF outcome = "True" THEN rule.action_type ELSE None,
             message |-> IF outcome # "True" THEN None
                         ELSE IF rule.action_type = "deny"
                              THEN rule.denial_reason_template
                         ELSE IF rule.action_type = "flag"
                              THEN rule.flag_reason_template
                         ELSE None]

\* the dict RuleService.evaluate_rule returns
EvaluateRule(rule, context) ==
    LET outcome == EvaluateConditions(rule.condition_logic, context)
        unmatched == [rule_id |-> rule.id, rule_code |-> rule.rule_code,
                      matched |-> FALSE, action |-> None, message |-> None]
    IN IF outcome = "TypeError"
       THEN [f \in DOMAIN unmatched \cup {"error"} |->
                IF f = "error" THEN "TypeError" ELSE unmatched[f]]
       ELSE IF outcome = "True"
            THEN [unmatched EXCEPT
                    !.matched = TRUE,
                    !.action = rule.action_type,
                    !.message = IF rule.action_type = "deny"
                                THEN rule.denial_reason_template
                                ELSE IF rule.action_type = "flag"
                                     THEN rule.flag_reason_template
                                ELSE None]
       ELSE unmatched

\* (a rule that has just matched this context is not evaluated again and is
\* reported as unmatched)
evaluate_rule_once(rule, context) ==
    /\ UNCHANGED <<dbvars, concvars, cachevars, othervars, resp, execution_logs>>
    /\ result' = [op |-> "evaluate_rule", rule |-> rule, context |-> context,
                  value |-> IF /\ result.op = "evaluate_rule"
                               /\ result.rule = rule
                               /\ result.context = context
                               /\ result.value.matched
                            THEN [result.value EXCEPT !.matched = FALSE,
                                                      !.action = None,
                                                      !.message = None]
                            ELSE EvaluateRule(rule, context)]

\* a call of RuleService.evaluate_rule
evaluate_rule(rule, context) ==
    /\ UNCHANGED <<dbvars, concvars, cachevars, othervars, resp, execution_logs>>
    /\ result' = [op |-> "evaluate_rule", rule |-> rule, context |-> context,
                  value |-> EvaluateRule(rule, context)]

NextEval ==
    \/ \E conditions \in ConditionDicts, context \in Contexts :
          evaluate_conditions(conditions, context)
    \/ \E rule \in EvalRules, context \in Contexts : evaluate_rule(rule, context)

SpecEval == Init /\ [][NextEval]_vars

(***************************** SpecClaims: the claim requests **************)
\* The claim endpoints of api/v1/endpoints/claims.py split at their awaits,
\* two requests interleaving, each one transaction at READ COMMITTED.  All
\* claims are created on the same day, so every claim_number has the prefix
\* of today and is modelled by its running number.

\* the claim requests of kind op that stand at one of steps
ClaimInFlight(op, steps) == {q \in Procs : pc[q] \in steps /\ req[q].op = op}

\* _generate_claim_number: count of the claims of today, plus one
GenerateClaimNumber == Cardinality(DOMAIN claims) + 1

\* Claim(...) of ClaimService.create
NewClaim(claim_number) ==
    [ claim_number   |-> claim_number,
      status         |-> "draft",
      submitted_at   |-> NullInstant,
      internal_notes |-> None,
      submissions    |-> 0 ]

\* create_claim, ClaimService.create: _generate_claim_number
k_number(p) ==
    /\ pc[p] = "idle"
    /\ next_claim + Cardinality(ClaimInFlight("create_claim", {"claim_insert"}))
          < MaxClaims
    /\ req' = [req EXCEPT ![p] =
                  [op |-> "create_claim", claim_number |-> GenerateClaimNumber]]
    /\ pc' = [pc EXCEPT ![p] = "claim_insert"]
    /\ UNCHANGED <<dbvars, runvars, cachevars, claimvars, ratevars, resp, obj,
                   max_version, written, pending, row_lock>>

\* ClaimService.create: add(claim); flush.  claims.claim_number is unique: the
\* INSERT waits for an uncommitted INSERT of the same number and raises
\* IntegrityError when the number is there
k_insert(p) ==
    /\ pc[p] = "claim_insert"
    /\ ~\E q \in ClaimInFlight("create_claim", {"claim_commit"}) :
           obj[q].claim_number = req[p].claim_number
    /\ IF \E c \in DOMAIN claims : claims[c].claim_number = req[p].claim_number
       THEN /\ resp' = "500 IntegrityError"
            /\ Idle(p)
            /\ UNCHANGED next_claim
       ELSE /\ next_claim' = next_claim + 1
            /\ obj' = [obj EXCEPT ![p] = NewClaim(req[p].claim_number)]
            /\ req' = [req EXCEPT ![p] =
                          [op |-> "create_claim", id |-> next_claim + 1]]
            /\ pc' = [pc EXCEPT ![p] = "claim_commit"]
            /\ UNCHANGED <<resp, max_version, written, pending>>
    /\ UNCHANGED <<dbvars, runvars, cachevars, ratevars, claims, claim_lock,
                   row_lock>>

\* save_draft, submit_claim, delete_claim: get_by_id, 404 for an unknown id,
\* 400 unless the claim is a draft
g_get(p, op, id) ==
    /\ pc[p] = "idle"
    /\ IF id \notin DOMAIN claims
       THEN /\ resp' = "404 Claim not found"
            /\ UNCHANGED <<pc, req, obj>>
       ELSE IF claims[id].status # "draft"
            THEN /\ resp' = "400 Only draft claims"
                 /\ UNCHANGED <<pc, req, obj>>
       ELSE /\ obj' = [obj EXCEPT ![p] = claims[id]]
            /\ req' = [req EXCEPT ![p] = [op |-> op, id |-> id]]
            /\ pc' = [pc EXCEPT ![p] = "claim_write"]
            /\ UNCHANGED resp
    /\ UNCHANGED <<dbvars, runvars, cachevars, claimvars, ratevars,
                   max_version, written, pending, row_lock>>

\* the row a request leaves when it commits: the committed row with the
\* columns its UPDATE sets
Written(op, row) ==
    IF op = "save_draft" THEN [row EXCEPT !.internal_notes = "edited"]
    ELSE [row EXCEPT !.status = "submitted", !.submitted_at = 1,
                     !.submissions = @ + 1]

\* ClaimService.update / submit / delete: get_by_id again, then the UPDATE or
\* DELETE of the flush, which waits for the row lock of another transaction
\* and holds it until the request ends.  No status is looked at here.
g_write(p) ==
    /\ pc[p] = "claim_write"
    /\ LET id == req[p].id
       IN IF id \notin DOMAIN claims
          THEN /\ resp' = IF req[p].op = "delete_claim" THEN "200 OK"
                          ELSE "500 ValidationError"
               /\ Idle(p)
               /\ UNCHANGED claim_lock
          ELSE /\ claim_lock[id] \in {None, p}
               /\ claim_lock' = [claim_lock EXCEPT ![id] = p]
               /\ obj' = [obj EXCEPT ![p] = Written(req[p].op, claims[id])]
               /\ pc' = [pc EXCEPT ![p] = "claim_commit"]
               /\ UNCHANGED <<resp, req, max_version, written, pending>>
    /\ UNCHANGED <<dbvars, runvars, cachevars, ratevars, claims, next_claim,
                   row_lock>>

\* the audit record, the response, and the commit of the request's session
k_commit(p) ==
    /\ pc[p] = "claim_commit"
    /\ LET id == req[p].id
       IN claims' =
             IF req[p].op = "delete_claim"
             THEN [c \in DOMAIN claims \ {id} |-> claims[c]]
             ELSE [c \in DOMAIN claims \cup {id} |->
                      IF c = id THEN obj[p] ELSE claims[c]]
    /\ claim_lock' = [c \in ClaimRowIds |->
                         IF claim_lock[c] = p THEN None ELSE claim_lock[c]]
    /\ resp' = IF req[p].op = "create_claim" THEN "201 Created" ELSE "200 OK"
    /\ Idle(p)
    /\ UNCHANGED <<dbvars, runvars, cachevars, ratevars, next_claim, row_lock>>

ClaimOps == {"save_draft", "submit_claim", "delete_claim"}

NextClaims ==
    \/ \E p \in Procs : k_number(p)
    \/ \E p \in Procs : k_insert(p)
    \/ \E p \in Procs, op \in ClaimOps, id \in ClaimRowIds : g_get(p, op, id)
    \/ \E p \in Procs : g_write(p)
    \/ \E p \in Procs : k_commit(p)

SpecClaims == Init /\ [][NextClaims]_vars

(***************************** SpecRate: the rate limiter *******************)
\* RateLimitingMiddleware._check_rate_limit split at its awaits, two requests
\* interleaving, the cache available.

\* self.rate_limit
rate_limit == 2

\* int(count_str) if count_str else 0
CurrentCount(identifier) ==
    IF counter[identifier] = <<>> THEN 0 ELSE counter[identifier][1].count

\* the request has been let through: _check_rate_limit returns True
LetThrough(p) ==
    /\ passed' = [passed EXCEPT ![req[p].identifier] = @ + 1]
    /\ resp' = "allowed"
    /\ pc' = [pc EXCEPT ![p] = "idle"]
    /\ req' = [req EXCEPT ![p] = <<>>]

\* count_str = await cache.get(cache_key); 429 when the count has reached
\* rate_limit
l_get(p, identifier) ==
    /\ pc[p] = "idle"
    /\ IF CurrentCount(identifier) >= rate_limit
       THEN /\ resp' = "429 Rate limit exceeded"
            /\ UNCHANGED <<pc, req>>
       ELSE /\ pc' = [pc EXCEPT ![p] = "rate_incr"]
            /\ req' = [req EXCEPT ![p] =
                  [op |-> "check_rate_limit", identifier |-> identifier]]
            /\ UNCHANGED resp
    /\ UNCHANGED <<dbvars, runvars, cachevars, claimvars, ratevars, obj,
                   max_version, written, pending, row_lock>>

\* new_count = await cache.increment(cache_key): INCR makes a missing key 1,
\* without expiry; the request is let through unless it has the expiry to set
l_incr(p) ==
    /\ pc[p] = "rate_incr"
    /\ LET key == req[p].identifier
       IN /\ counter' = [counter EXCEPT ![key] =
                IF @ = <<>> THEN <<[count |-> 1, ttl |-> FALSE]>>
                ELSE <<[@[1] EXCEPT !.count = @ + 1]>>]
          /\ IF counter[key] = <<>>
             THEN /\ pc' = [pc EXCEPT ![p] = "rate_expire"]
                  /\ UNCHANGED <<resp, req, passed>>
             ELSE LetThrough(p)
    /\ UNCHANGED <<dbvars, runvars, cachevars, claimvars, obj, max_version,
                   written, pending, row_lock>>

\* if new_count == 1: await cache.expire(cache_key, window_size) and the ttl
\* key; the request is let through
l_expire(p) ==
    /\ pc[p] = "rate_expire"
    /\ counter' = [counter EXCEPT ![req[p].identifier] =
          IF @ = <<>> THEN @ ELSE <<[@[1] EXCEPT !.ttl = TRUE]>>]
    /\ LetThrough(p)
    /\ UNCHANGED <<dbvars, runvars, cachevars, claimvars, obj, max_version,
                   written, pending, row_lock>>

\* the window of a counter with an expiry ends: Redis drops the key
window_ends(identifier) ==
    /\ counter[identifier] # <<>>
    /\ counter[identifier][1].ttl
    /\ counter' = [counter EXCEPT ![identifier] = <<>>]
    /\ passed' = [passed EXCEPT ![identifier] = 0]
    /\ UNCHANGED <<dbvars, concvars, runvars, cachevars, claimvars, resp>>

NextRate ==
    \/ \E p \in Procs, identifier \in Identifiers : l_get(p, identifier)
    \/ \E p \in Procs : l_incr(p)
    \/ \E p \in Procs : l_expire(p)
    \/ \E identifier \in Identifiers : window_ends(identifier)

SpecRate == Init /\ [][NextRate]_vars

(***************************** claims **************************************)
\* the rows of versions[r] before the step are the first rows after it
HistoryKept(r) ==
    /\ Len(versions'[r]) >= Len(versions[r])
    /\ \A i \in 1..Len(versions[r]) : versions'[r][i] = versions[r][i]

\* the version numbers of the rows of vs
VersionNumbers(vs) == {vs[i].version_number : i \in 1..Len(vs)}

\* C1: under any interleaving of concurrent updates of one rule, no two
\* RuleVersion rows of the rule carry the same version_number.
C1_UniqueVersionNumbers ==
    \A r \in RuleIds : \A i, j \in 1..Len(versions[r]) :
        i # j => versions[r][i].version_number # versions[r][j].version_number

\* C2: a concurrent mutation never silently overwrites another writer's
\* change: when a request changes a column of the rule row, the column still
\* holds the value the request read, or the request fails with
\* ConcurrentModification.
C2_NoSilentOverwrite ==
    [][\A p \in Procs : \A c \in PatchFields :
          (/\ pc[p] = "flush"
           /\ pc'[p] # "flush"
           /\ c \in written'[p]
           /\ obj'[p][c] # rules[req[p].id][c])
          => \/ obj[p][c] = rules[req[p].id][c]
             \/ resp' = "409 ConcurrentModification"]_vars

\* C3: in every state reached by create, update, rollback, setActive and
\* delete requests the version numbers of each rule's RuleVersions are
\* 1, 2, .., n in the order the rows were written: no gap, no repeat, each
\* new number above all earlier ones.
C3_GaplessVersions ==
    \A r \in RuleIds : \A i \in 1..Len(versions[r]) :
        versions[r][i].version_number = i

C3_Witness ==
    \E r \in DOMAIN rules : Len(versions[r]) = MaxVersions

\* C4: history is append-only: a Rule row that exists stays, a RuleVersion
\* row that exists stays as it is; a delete only marks the rule inactive.
C4_AppendOnly ==
    [][/\ \A r \in DOMAIN rules : r \in DOMAIN rules'
       /\ \A r \in RuleIds : HistoryKept(r)
       /\ \A id \in RuleIds, user \in Users :
             (delete_rule(id, user) /\ RuleExists(id))
             => /\ id \in DOMAIN rules'
                /\ rules'[id] = [rules[id] EXCEPT !.is_active = FALSE]]_vars

C7_UpdateAppendsVersion ==
    [][\A id \in RuleIds, data \in RuleUpdateData, user \in Users :
          (update_rule(id, data, user) /\ resp' = "200 OK")
          => LET n   == Len(versions[id])
                 new == versions'[id][n + 1]
             IN /\ Len(versions'[id]) = n + 1
                /\ HistoryKept(id)
                /\ new.version_number - 1 \in VersionNumbers(versions[id])
                /\ \A k \in VersionNumbers(versions[id]) :
                      k < new.version_number
                /\ \A f \in SnapshotFields :
                      /\ new[f] = rules'[id][f]
                      /\ f \in DOMAIN data => new[f] = data[f]]_vars

C7_Witness ==
    /\ resp = "200 OK"
    /\ \E r \in DOMAIN rules :
          /\ Len(versions[r]) = MaxVersions
          /\ versions[r][Len(versions[r])].priority # versions[r][1].priority

\* C8: update is a partial update: a field the patch does not provide keeps
\* its value; no operation changes the code (or the id, the key of the row)
\* of a rule after its creation.
C8_PartialUpdate ==
    [][/\ \A id \in RuleIds, data \in RuleUpdateData, user \in Users :
             (update_rule(id, data, user) /\ RuleExists(id))
             => /\ RuleExists(id)'
                /\ \A f \in (PatchFields \cup {"rule_code", "created_by"})
                              \ DOMAIN data :
                      rules'[id][f] = rules[id][f]
       /\ \A r \in DOMAIN rules \cap DOMAIN rules' :
             rules'[r].rule_code = rules[r].rule_code]_vars

C8_Witness ==
    /\ resp = "200 OK"
    /\ \E r \in DOMAIN rules :
          /\ rules[r].rule_code = "R2"
          /\ rules[r].rule_name = "n2"
          /\ rules[r].priority = 2
          /\ rules[r].effective_to = 2
          /\ rules[r].is_active = FALSE
          /\ rules[r].effective_from = 1
          /\ Len(versions[r]) = MaxVersions

\* C9: update, rollback, setActive or delete of a rule id that does not exist
\* (for rollback also: of a version id that does not exist) fails with
\* NotFound, changes no Rule and no RuleVersion and writes no audit record.
C9_NotFound ==
    [][/\ \A id \in RuleIds, data \in RuleUpdateData, user \in Users :
             (update_rule(id, data, user) /\ ~RuleExists(id))
             => resp' = "404 Rule not found" /\ UNCHANGED dbvars
       /\ \A id \in RuleIds, user \in Users :
             (delete_rule(id, user) /\ ~RuleExists(id))
             => resp' = "404 Rule not found" /\ UNCHANGED dbvars
       /\ \A id \in RuleIds, a \in BOOLEAN, user \in Users :
             (toggle_active(id, a, user) /\ ~RuleExists(id))
             => resp' = "None" /\ UNCHANGED dbvars
       /\ \A id \in RuleIds, v \in VersionIds, user \in Users :
             (rollback_rule(id, v, user)
                /\ (~RuleExists(id) \/ v > Len(versions[id])))
             => resp' \in {"404 Rule not found", "404 Version not found"}
                /\ UNCHANGED dbvars]_vars

\* C10: for a rule updated after version v, rollback to v succeeds, gives the
\* rule the field values of version v, appends one RuleVersion numbered above
\* all earlier ones and leaves the earlier RuleVersions as they were.
C10_RollbackAppends ==
    [][\A id \in RuleIds, v \in VersionIds, user \in Users :
          (rollback_rule(id, v, user) /\ RuleExists(id)
             /\ v < Len(versions[id]))
          => /\ resp' = "200 OK"
             /\ \A f \in SnapshotFields : rules'[id][f] = versions[id][v][f]
             /\ Len(versions'[id]) = Len(versions[id]) + 1
             /\ HistoryKept(id)
             /\ \A k \in VersionNumbers(versions[id]) :
                   k < versions'[id][Len(versions'[id])].version_number]_vars

\* the rule-defining fields a full snapshot carries
DefiningFields ==
    {"rule_name", "rule_type", "action_type", "condition_logic", "priority",
     "effective_from", "effective_to", "denial_reason_template",
     "flag_reason_template"}

\* C11: each RuleVersion is a full copy of the rule-defining fields: after
\* every create or update the newest RuleVersion of a rule carries name, type,
\* action, condition, priority, effective_from, effective_to and the denial
\* and flag templates, equal to the rule's (toggle_active changes none of
\* them).
C11_FullSnapshot ==
    \A r \in DOMAIN rules :
        versions[r] # <<>> =>
            LET newest == versions[r][Len(versions[r])]
            IN \A f \in DefiningFields :
                  /\ f \in DOMAIN newest
                  /\ newest[f] = rules[r][f]

\* C12: toggle_active on an existing rule sets the active flag and the last
\* modifier and nothing else: no RuleVersion is written, and condition,
\* priority, type, action, effective dates and every other field of the rule,
\* and every other rule, stay as they were.
C12_ToggleFrame ==
    [][\A id \in RuleIds, a \in BOOLEAN, user \in Users :
          (RuleExists(id) /\ toggle_active(id, a, user))
          => /\ versions' = versions
             /\ DOMAIN rules' = DOMAIN rules
             /\ rules'[id].is_active = a
             /\ rules'[id].last_modified_by = user
             /\ \A f \in DOMAIN rules[id] \ {"is_active", "last_modified_by"} :
                   rules'[id][f] = rules[id][f]
             /\ \A r \in DOMAIN rules \ {id} : rules'[r] = rules[r]]_vars

C12_Witness ==
    /\ resp = "Rule"
    /\ \E r \in DOMAIN rules :
          /\ rules[r].rule_code = "R1"
          /\ rules[r].rule_name = "n1"
          /\ rules[r].priority = 2
          /\ ~rules[r].is_active
          /\ Len(versions[r]) = 2

\* C13: get_active_rules returns exactly the rules that are active, whose
\* effective_from is null or not after the instant of the call, whose
\* effective_to is null or not before it and, when a type is given, of that
\* type: each such rule once, and no other rule.
C13_ActiveFilter ==
    result.op = "get_active_rules" =>
        LET returned == {result.rules[i] : i \in DOMAIN result.rules}
        IN /\ Cardinality(returned) = Len(result.rules)
           /\ \A r \in DOMAIN rules :
                 r \in returned <=>
                    /\ rules[r].is_active
                    /\ \/ rules[r].effective_from = NullInstant
                       \/ rules[r].effective_from <= result.now
                    /\ \/ rules[r].effective_to = NullInstant
                       \/ rules[r].effective_to >= result.now
                    /\ result.rule_type \in {None, rules[r].rule_type}

C13_Witness ==
    /\ result.op = "get_active_rules"
    /\ result.now = 3
    /\ result.rule_type = "validation"
    /\ Len(result.rules) = 1
    /\ \E r \in DOMAIN rules :
          /\ r # result.rules[1]
          /\ rules[r].is_active
          /\ rules[r].rule_type = "validation"
          /\ rules[r].effective_to = 2
    /\ rules[result.rules[1]].effective_from = 2

\* position of a code in ascending order of the codes
CodeRank(code) == CHOOSE i \in DOMAIN RuleCodes : RuleCodes[i] = code

\* C14: the sequence get_active_rules returns is sorted ascending by
\* (priority, code): a lower priority first, and among equal priorities the
\* lower code first.
C14_SortedByPriorityAndCode ==
    result.op = "get_active_rules" =>
        \A i, j \in DOMAIN result.rules :
            i < j =>
               LET a == rules[result.rules[i]]
                   b == rules[result.rules[j]]
               IN \/ a.priority < b.priority
                  \/ /\ a.priority = b.priority
                     /\ CodeRank(a.rule_code) < CodeRank(b.rule_code)

\* C20: a comparison whose field is absent from the context gives true for
\* not_equals and false for equals, greater_than, less_than, contains and in,
\* whatever the comparison value, null included.
C20_MissingField ==
    (/\ result.op = "_evaluate_conditions"
     /\ DOMAIN result.conditions = {"operator", "rules"}
     /\ result.conditions.operator \in {"and", "or"}
     /\ Len(result.conditions.rules) = 1
     /\ result.conditions.rules[1] \in Comparisons
     /\ result.conditions.rules[1].field \notin DOMAIN result.context)
    => result.value =
          IF result.conditions.rules[1].operator = "not_equals"
          THEN "True" ELSE "False"

\* how a node of a condition tree reads: its type, its children, and for a
\* comparison the operator under the evaluator's name
NodeType(n) ==
    IF "type" \in DOMAIN n THEN n.type
    ELSE IF "rules" \notin DOMAIN n THEN "COMPARISON"
    ELSE LET o == Opt(n, "operator", "and")
         IN IF o = "and" THEN "AND" ELSE IF o = "or" THEN "OR" ELSE "NOT"

Children(n) == IF "type" \in DOMAIN n THEN n.conditions ELSE n.rules

Leaf(n) ==
    [field |-> n.field, value |-> n.value,
     operator |-> IF n.operator = "=" THEN "equals"
                  ELSE IF n.operator = "!=" THEN "not_equals" ELSE n.operator]

\* the tree matches: a comparison by its own result, AND when all children
\* match, OR when some child matches, NOT when its child does not
RECURSIVE Matched(_, _)
Matched(n, context) ==
    IF NodeType(n) = "COMPARISON" THEN Compare(Leaf(n), context) = "True"
    ELSE IF NodeType(n) = "AND"
         THEN \A i \in DOMAIN Children(n) : Matched(Children(n)[i], context)
    ELSE IF NodeType(n) = "OR"
         THEN \E i \in DOMAIN Children(n) : Matched(Children(n)[i], context)
    ELSE ~Matched(Children(n)[1], context)

\* C19: for every condition tree with an AND, OR or NOT node at its root and
\* every context, the evaluation (when it raises nothing) gives: AND matched
\* iff all children matched, OR matched iff some child matched, NOT matched
\* iff its child did not match, the children evaluated the same way.
C19_BooleanStructure ==
    (/\ result.op = "_evaluate_conditions"
     /\ result.value # "TypeError"
     /\ result.conditions # <<>>
     /\ NodeType(result.conditions) # "COMPARISON")
    => (result.value = "True" <=> Matched(result.conditions, result.context))

MatchedEntries(trace) == {i \in DOMAIN trace : trace[i].matched}

\* DENY over FLAG over APPROVE over null, by the actions of the matched entries
Precedence(trace) ==
    LET actions == {trace[i].action : i \in MatchedEntries(trace)}
    IN IF "deny" \in actions THEN "deny"
       ELSE IF "flag" \in actions THEN "flag"
       ELSE IF "approve" \in actions THEN "approve"
       ELSE None

\* C15: a run of the rules on a claim returns a final outcome that is DENY if
\* a matched rule denies, else FLAG if one flags, else APPROVE if one
\* approves, else null, and a count of matched rules equal to the number of
\* matched entries of its trace.
C15_OutcomePrecedence ==
    [][\A claim_id \in ClaimIds, user \in Users :
          execute_rules(claim_id, user) =>
              /\ {"final_outcome", "rules_matched", "execution_trace"}
                    \subseteq DOMAIN result'
              /\ result'.final_outcome = Precedence(result'.execution_trace)
              /\ result'.rules_matched =
                    Cardinality(MatchedEntries(result'.execution_trace))]_vars

\* C16: a run of the rules on a claim returns a trace with one entry per active
\* rule, in the order of the catalog, whatever matched before; when no entry
\* matched the final outcome is null.
C16_FullTrace ==
    [][\A claim_id \in ClaimIds, user \in Users :
          execute_rules(claim_id, user) =>
              /\ "execution_trace" \in DOMAIN result'
              /\ \E now \in Instants :
                    \E s \in OrderedByPriority(SelectActive(None, now)) :
                       /\ Len(result'.execution_trace) = Len(s)
                       /\ \A i \in DOMAIN s :
                             result'.execution_trace[i].rule_id = s[i]
              /\ MatchedEntries(result'.execution_trace) = {}
                    => result'.final_outcome = None]_vars

IsComparison(entry) == {"field", "operator", "value"} \subseteq DOMAIN entry

\* a GREATER_THAN or LESS_THAN entry whose field is present in the context
\* (two lists excepted: Python orders them, the claim says nothing of them)
IsOrdering(entry, context) ==
    /\ IsComparison(entry)
    /\ entry.operator \in {"greater_than", "less_than"}
    /\ entry.field \in DOMAIN context
    /\ ~(context[entry.field].t = "list" /\ entry.value.t = "list")

\* what C21 says such an entry evaluates to; any other entry as the code has it
OrderingResult(entry, context) ==
    IF IsOrdering(entry, context)
    THEN LET context_value == context[entry.field]
         IN IF context_value.t = "int" /\ entry.value.t = "int"
            THEN IF entry.operator = "greater_than"
                 THEN Bool(context_value.int > entry.value.int)
                 ELSE Bool(context_value.int < entry.value.int)
            ELSE "False"
    ELSE Compare(entry, context)

\* C21: GREATER_THAN and LESS_THAN never raise: on a present context value that
\* cannot be compared with the comparison value the entry is false and the
\* other entries of the condition count as usual; on a numeric context value,
\* 0 included, the entry is true iff the numeric comparison holds.
C21_OrderingNeverRaises ==
    (/\ result.op = "_evaluate_conditions"
     /\ DOMAIN result.conditions = {"operator", "rules"}
     /\ result.conditions.operator \in {"and", "or"}
     /\ \A i \in DOMAIN result.conditions.rules :
           /\ IsComparison(result.conditions.rules[i])
           /\ OrderingResult(result.conditions.rules[i], result.context)
                 # "TypeError"
     /\ \E i \in DOMAIN result.conditions.rules :
           IsOrdering(result.conditions.rules[i], result.context))
    => LET entries == result.conditions.rules
           expected == [i \in DOMAIN entries |->
                           OrderingResult(entries[i], result.context)]
       IN result.value =
             IF result.conditions.operator = "and"
             THEN Bool(\A i \in DOMAIN expected : expected[i] = "True")
             ELSE Bool(\E i \in DOMAIN expected : expected[i] = "True")

\* x is an element of the list container
Member(x, container) ==
    /\ x.t = "int"
    /\ \E i \in DOMAIN container.list : container.list[i] = x.int

\* C22: for every context value that is present, 0 and the empty sequence
\* included, IN is true iff the context value is an element of the comparison
\* value, and CONTAINS is true iff the comparison value is an element of the
\* context value.
C22_Membership ==
    (/\ result.op = "_evaluate_conditions"
     /\ DOMAIN result.conditions = {"operator", "rules"}
     /\ result.conditions.operator \in {"and", "or"}
     /\ Len(result.conditions.rules) = 1
     /\ IsComparison(result.conditions.rules[1])
     /\ result.conditions.rules[1].field \in DOMAIN result.context)
    => LET entry == result.conditions.rules[1]
           context_value == result.context[entry.field]
       IN /\ (entry.operator = "in" /\ entry.value.t = "list")
                => result.value = Bool(Member(context_value, entry.value))
          /\ (entry.operator = "contains" /\ context_value.t = "list")
                => result.value = Bool(Member(entry.value, context_value))

C24_TraceEntryPerChild ==
    (/\ result.op = "_evaluate_conditions"
     /\ DOMAIN result.conditions = {"operator", "rules"}
     /\ result.conditions.operator \in {"and", "or"}
     /\ \A i \in DOMAIN result.conditions.rules :
           IsComparison(result.conditions.rules[i]))
    => /\ result.value # "TypeError"
       /\ "trace" \in DOMAIN result
       /\ Len(result.trace) = Len(result.conditions.rules)
       /\ \A i \in DOMAIN result.conditions.rules :
             result.trace[i] = Compare(result.conditions.rules[i],
                                       result.context)

C26_ActivityVersioning ==
    [][\A id \in RuleIds, user \in Users, data \in ActivityUpdateData :
          (RuleExists(id) /\ update_rule(id, data, user))
          => \E a \in BOOLEAN :
                /\ data.is_active = a
                /\ LET toggled == PutRule(id, [rules[id] EXCEPT
                                                  !.is_active = a,
                                                  !.last_modified_by = user])
                   IN rules' = toggled
                /\ versions' = versions]_vars

\* C27: a rule whose condition_logic has the shape rule creation accepts (type
\* AND, OR, NOT or COMPARISON with conditions, field, operator, value) and
\* whose condition holds for the context is matched by evaluate_rule, with the
\* rule's action.
C27_StoredShapeEvaluated ==
    (/\ result.op = "evaluate_rule"
     /\ result.rule.condition_logic \in SchemaTrees
     /\ Matched(result.rule.condition_logic, result.context))
    => /\ result.value.matched = TRUE
       /\ result.value.action = result.rule.action_type

\* C28: after any sequence of claim creations and draft deletions on one day,
\* interleaved or not, the claim number generated for a new claim differs from
\* the claim number of every existing claim.
C28_UniqueClaimNumber ==
    \A c \in DOMAIN claims : claims[c].claim_number # GenerateClaimNumber

\* C29: under any interleaving of save_draft, submit_claim and delete_claim on
\* one claim, a claim that is no longer a draft is not modified by save_draft,
\* not deleted by delete_claim and not submitted again: its row stays as it is.
C29_OnlyDrafts ==
    [][\A c \in DOMAIN claims :
          claims[c].status # "draft"
             => /\ c \in DOMAIN claims'
                /\ claims'[c] = claims[c]]_vars

\* C30: with the cache available, the requests of one identifier let through
\* within one window never number more than rate_limit, however the requests
\* interleave; and a counter left by finished requests carries an expiry.
C30_RateLimit ==
    \A i \in Identifiers :
        /\ passed[i] <= rate_limit
        /\ ((\A p \in Procs : pc[p] = "idle") /\ counter[i] # <<>>)
              => counter[i][1].ttl

====
